---- MODULE Spec2Model ----
(***************************************************************************)
(* Infoblox NIOS connector: the request executor (make_rest_call and the   *)
(* response handlers behind it) and the paginator                          *)
(* (make_paginated_rest_call) of infoblox_nios_utils.py, together with the *)
(* DHCP lease lookup action that drives the paginator.                     *)
(*                                                                         *)
(* Python values are modelled as follows.  An optional value is a sequence *)
(* of length at most one: <<>> is None, <<x>> is the value x.  A dict is a *)
(* function whose DOMAIN is the set of keys present.  A str the code       *)
(* inspects character by character (the HTTP method) is a sequence of      *)
(* one-character strings.                                                  *)
(***************************************************************************)
EXTENDS Integers, Sequences, FiniteSets, TLC

----------------------------------------------------------------------------
(* Bounds of the model (not program constants).                            *)

\* largest limit a caller passes explicitly
MaxLimit == 3
\* largest number of records the server puts into one page
MaxPageLen == 2
\* the server stops handing out cursors once this many requests were issued
MaxRequests == 3

----------------------------------------------------------------------------
(* Program constants.                                                      *)

DEFAULT_MAX_RESULTS == 1000
DEFAULT_PAGE_SIZE == 1000
DEFAULT_LIMIT == 100

----------------------------------------------------------------------------
(* Python helpers.                                                         *)

None == <<>>
Some(x) == <<x>>

\* Python truthiness of an optional str: None and "" are falsy
Truthy(o) == o # None /\ o[1] # ""

Min(a, b) == IF a <= b THEN a ELSE b

\* s[:n] for n >= 0
Take(s, n) == SubSeq(s, 1, Min(n, Len(s)))

\* d[k] = v
DictSet(d, k, v) == [x \in DOMAIN d \cup {k} |-> IF x = k THEN v ELSE d[x]]

\* d.pop(k, None)
DictPop(d, k) == [x \in DOMAIN d \ {k} |-> d[x]]

EmptyDict == [x \in {} |-> 0]

UpperLetters ==
    <<"A", "B", "C", "D", "E", "F", "G", "H", "I", "J", "K", "L", "M",
      "N", "O", "P", "Q", "R", "S", "T", "U", "V", "W", "X", "Y", "Z">>

LowerLetters ==
    <<"a", "b", "c", "d", "e", "f", "g", "h", "i", "j", "k", "l", "m",
      "n", "o", "p", "q", "r", "s", "t", "u", "v", "w", "x", "y", "z">>

LowerChar(c) ==
    IF \E i \in DOMAIN UpperLetters : UpperLetters[i] = c
    THEN LowerLetters[CHOOSE i \in DOMAIN UpperLetters : UpperLetters[i] = c]
    ELSE c

\* str.lower()
Lower(s) == [i \in DOMAIN s |-> LowerChar(s[i])]

----------------------------------------------------------------------------
(* HTTP responses as the server sends them.                                *)

\* a parsed JSON value: an object (with its "result" and "next_page_id"
\* members, each possibly missing), an array of entries, or a scalar
JsonObject(res, nxt) == [shape |-> "object", result |-> res, next_page_id |-> nxt, items |-> <<>>]
JsonArray(xs) == [shape |-> "array", result |-> None, next_page_id |-> None, items |-> xs]
JsonScalar == [shape |-> "scalar", result |-> None, next_page_id |-> None, items |-> <<>>]
JsonNothing == [shape |-> "none", result |-> None, next_page_id |-> None, items |-> <<>>]

\* the empty dict {} the handlers return for an empty body
EmptyObject == JsonObject(None, None)

\* response.text: "" , whitespace only, text that is no JSON (starting with
\* "{" or not), or the serialisation of a JSON value
Body(text, json) == [text |-> text, json |-> json]
EmptyBody == Body("empty", JsonNothing)
BlankBody == Body("blank", JsonNothing)
GarbageBody == Body("garbage", JsonNothing)
BraceGarbageBody == Body("brace_garbage", JsonNothing)
JsonBody(j) == Body("json", j)

\* fault seeded for C13: whitespace taken for an empty body
TextIsEmptyStripped(b) == b.text \in {"empty", "blank"}

\* not response.text
TextIsEmpty(b) == b.text = "empty"
\* response.text.strip() == ""
StripIsEmpty(b) == b.text \in {"empty", "blank"}
\* response.text.strip().startswith("{")
StartsWithBrace(b) ==
    \/ b.text = "brace_garbage"
    \/ b.text = "json" /\ b.json.shape = "object"
\* response.json() does not raise
Parses(b) == b.text = "json"

\* "json" in content_type, "text/plain" in content_type, "html" in content_type
HasJson(ct) == ct \in {"application/json", "application/problem+json"}
HasTextPlain(ct) == ct \in {"text/plain", "text/plain; charset=utf-8"}
HasHtml(ct) == ct \in {"text/html"}

ContentTypes ==
    {"application/json", "text/plain", "text/html", "application/xml", ""}

StatusCodes == {199, 200, 299, 300, 399, 400, 500}

----------------------------------------------------------------------------
(* Return values: RetVal(status, data), with the message that              *)
(* action_result.set_status recorded when the status is a failure.         *)

NoMsg == [kind |-> "none", code |-> 0, method |-> <<>>]
StatusMsg(kind, code) == [kind |-> kind, code |-> code, method |-> <<>>]
MethodMsg(m) == [kind |-> "unsupported_method", code |-> 0, method |-> m]

RetVal(status, data, msg) == [ret_val |-> status, data |-> data, message |-> msg]
NoRet == RetVal("none", None, NoMsg)

APP_SUCCESS == "success"
APP_ERROR == "failure"

is_fail(ret_val) == ret_val # APP_SUCCESS

\* fault seeded for C10: the range of the empty-body handler, [200,399)
InSuccessRangeTo399(code) == 200 <= code /\ code < 399

InSuccessRange(code) == 200 <= code /\ code < 300

process_json_response(r) ==
    IF StripIsEmpty(r.body)
    THEN IF InSuccessRange(r.status_code)
         THEN RetVal(APP_SUCCESS, Some(EmptyObject), NoMsg)
         ELSE RetVal(APP_ERROR, Some(EmptyObject), StatusMsg("status_code", r.status_code))
    ELSE IF ~Parses(r.body)
    THEN RetVal(APP_ERROR, None, StatusMsg("json_parse", 0))
    ELSE IF InSuccessRange(r.status_code)
    THEN RetVal(APP_SUCCESS, Some(r.body.json), NoMsg)
    ELSE RetVal(APP_ERROR, Some(r.body.json), StatusMsg("status_code", r.status_code))

\* fault seeded for C12: an HTML page with a 2xx status let through
process_html_response_2xx(r) ==
    IF 200 <= r.status_code /\ r.status_code < 300
    THEN RetVal(APP_SUCCESS, Some(EmptyObject), NoMsg)
    ELSE RetVal(APP_ERROR, None, StatusMsg("html", r.status_code))

process_html_response(r) ==
    RetVal(APP_ERROR, None, StatusMsg("html", r.status_code))

process_empty_response(r) ==
    IF 200 <= r.status_code /\ r.status_code < 399
    THEN RetVal(APP_SUCCESS, Some(EmptyObject), NoMsg)
    ELSE RetVal(APP_ERROR, None, StatusMsg("empty", r.status_code))

\* fault seeded for C26: text/plain never handled as JSON
process_response_plain_not_json(r) ==
    IF HasJson(r.content_type)
    THEN process_json_response(r)
    ELSE IF HasHtml(r.content_type)
    THEN process_html_response(r)
    ELSE IF TextIsEmpty(r.body)
    THEN process_empty_response(r)
    ELSE RetVal(APP_ERROR, None, StatusMsg("cant_process", r.status_code))

process_response(r) ==
    IF HasJson(r.content_type)
    THEN process_json_response(r)
    ELSE IF HasTextPlain(r.content_type) /\ ~TextIsEmpty(r.body) /\ StartsWithBrace(r.body)
    THEN process_json_response(r)
    ELSE IF HasHtml(r.content_type)
    THEN process_html_response(r)
    ELSE IF TextIsEmpty(r.body)
    THEN process_empty_response(r)
    ELSE RetVal(APP_ERROR, None, StatusMsg("cant_process", r.status_code))

----------------------------------------------------------------------------
(* Inputs.                                                                 *)

GET == <<"g", "e", "t">>
POST == <<"p", "o", "s", "t">>
PUT == <<"p", "u", "t">>
PATCH == <<"p", "a", "t", "c", "h">>
DELETE == <<"d", "e", "l", "e", "t", "e">>
HEAD == <<"h", "e", "a", "d">>

\* the methods callers pass to make_rest_call, in the spellings they may use
Methods ==
    {GET, <<"G", "E", "T">>, <<"P", "o", "s", "t">>, PUT, <<"P", "A", "T", "C", "H">>,
     DELETE, <<"D", "e", "l", "e", "t", "e">>, HEAD, <<"T", "R", "A", "C", "E">>}

\* the methods callers pass to make_paginated_rest_call
PagedMethods == {GET, HEAD}

\* limit=None or an explicit limit >= 1 (a small one, or 50)
Limits == {None, Some(50)} \cup {Some(n) : n \in 1..MaxLimit}

\* page_size=None or an explicit page size >= 1
PageSizes == {None, Some(1), Some(2)}

\* a caller's params that already hold every key the paginator sets
HostileParams ==
    ("_page_id" :> "stale") @@ ("_paging" :> 0) @@ ("_return_as_object" :> 0)
        @@ ("_max_results" :> 7)

\* params=None, an empty dict, or a dict
ParamChoices == {None, Some(EmptyDict), Some(HostileParams)}

\* headers=None, a dict without Content-Type, or the dict some actions pass
AcceptHeaders == "Accept" :> "application/json"
ContentTypeHeaders == "Content-Type" :> "application/json"
HeaderChoices == {None, Some(AcceptHeaders), Some(ContentTypeHeaders)}

\* the headers callers pass to make_paginated_rest_call
PagedHeaderChoices == {None, Some(AcceptHeaders)}

\* headers are varied on the calls that pass no params and no page size
HeadersWith(choices, ps, p) == IF ps = None /\ p = None THEN choices ELSE {None}

CursorTokens == <<"c1", "c2", "c3", "c4", "c5", "c6">>

\* records n+1 .. n+k, the next k records of the server's table
Records(n, k) == [i \in 1..k |-> n + i]

\* the bodies a server may send when n records were served before; a cursor
\* is the token tok
Bodies(n, tok) ==
    {EmptyBody, BlankBody, GarbageBody, BraceGarbageBody, JsonBody(JsonScalar)}
    \cup {JsonBody(JsonArray(Records(n, k))) : k \in 0..MaxPageLen}
    \cup {JsonBody(JsonObject(res, nxt)) :
            res \in {None} \cup {Some(Records(n, k)) : k \in 0..MaxPageLen},
            nxt \in {None, Some("")} \cup {Some(t) : t \in tok}}

Response(code, ct, b) == [status_code |-> code, content_type |-> ct, body |-> b]
NoResponse == Response(0, "", EmptyBody)

\* what the server may answer to a direct call
DirectResponses ==
    {Response(c, ct, b) : c \in StatusCodes, ct \in ContentTypes, b \in Bodies(0, {"c1"})}

PagedStatusCodes == {200, 404}
PagedContentTypes == {"application/json", "text/html"}

----------------------------------------------------------------------------
(* State.                                                                  *)

VARIABLES
    pc,                 \* "idle", "loop", "awaiting", "returned", "finished"
    mode,               \* "none", "direct" (make_rest_call), "paged"
    caller,             \* "none", "action" (a direct call), "dhcp", "other"
    method,             \* the method argument
    limit_arg,          \* the limit argument (optional)
    page_size_arg,      \* the page_size argument (optional)
    params,             \* the caller's params argument (optional dict)
    headers_arg,        \* the headers argument as the caller passed it
    headers,            \* the caller's headers object (optional dict)
    limit,              \* local limit, after defaulting
    page_size,          \* local page_size, after defaulting
    paginated_params,   \* local dict
    all_results,        \* local list
    page_id,            \* local cursor (optional)
    resp,               \* the HTTP response of the current make_rest_call
    ret,                \* what the call returned to its caller
    sent,               \* every HTTP request issued, in order
    served,             \* every HTTP response received, in order
    call_requests,      \* HTTP requests issued by the current make_rest_call
    transport_errors,   \* requests that ended in a transport-level exception
    action_data,        \* the records add_data put into the action result
    action_status,      \* "running", "success", "failure", "raised"
    rpz_pc,             \* "idle", "start", "named", "prepared"
    rule_type,          \* the rule_type parameter
    object_type,        \* the object_type parameter (optional)
    reference_id,       \* the reference_id parameter (optional)
    name,               \* the name parameter (optional string)
    substitute_name,    \* the substitute_name parameter (optional string)
    rp_zone,            \* the rp_zone parameter (optional string)
    formatted_name,     \* what format_rpz_cname_name returned
    canonical_value,    \* what prepare_rpz_cname_canonical_value returned
    t_pc,               \* per invocation: "idle", "loop", "awaiting", "returned"
    t_limit_arg,        \* per invocation: the limit argument
    t_limit,            \* per invocation: local limit
    t_page_size,        \* per invocation: local page_size
    t_paginated_params, \* per invocation: local dict
    t_all_results,      \* per invocation: local list
    t_page_id,          \* per invocation: local cursor
    t_ret,              \* per invocation: what the call returned
    t_sent,             \* per invocation: the params of its requests, in order
    t_served,           \* per invocation: the responses it received, in order
    lookup_pc,          \* "idle", "start", "failed", "called"
    lookup_action,      \* the lookup action that runs
    limit_param,        \* its limit parameter (optional)
    err_pc,             \* "idle", "start", "done"
    err_status,         \* the status code of a JSON response
    err_body,           \* its body
    err_ret,            \* the status and message _process_json_response gave
    rule_action,        \* "none", "create", "update": the RPZ CNAME rule action
    additional_parameters, \* its additional_parameters parameter
    rule_data           \* the request body the action built (optional dict)

rpz_params == <<rule_type, object_type, reference_id, name, substitute_name, rp_zone>>
rpz_vars == <<rpz_pc, rpz_params, formatted_name, canonical_value>>

twin_vars ==
    <<t_pc, t_limit_arg, t_limit, t_page_size, t_paginated_params, t_all_results,
      t_page_id, t_ret, t_sent, t_served>>

main_vars ==
    <<pc, mode, caller, method, limit_arg, page_size_arg, params, headers_arg,
      headers, limit, page_size,
      paginated_params, all_results, page_id, resp, ret, sent, served,
      call_requests, transport_errors, action_data, action_status>>

lookup_vars == <<lookup_pc, lookup_action, limit_param>>

err_vars == <<err_pc, err_status, err_body, err_ret>>

rule_vars == <<rule_action, additional_parameters, rule_data>>

vars == <<main_vars, rpz_vars, twin_vars, lookup_vars, err_vars, rule_vars>>

paged_locals == <<limit, page_size, paginated_params, all_results, page_id>>
call_args == <<mode, caller, method, limit_arg, page_size_arg, params, headers_arg>>
action_vars == <<action_data, action_status>>

\* no request has been made
CallsIdle ==
    /\ pc = "idle"
    /\ mode = "none"
    /\ caller = "none"
    /\ method = GET
    /\ limit_arg = None
    /\ page_size_arg = None
    /\ params = None
    /\ headers_arg = None
    /\ headers = None
    /\ limit = 0
    /\ page_size = 0
    /\ paginated_params = EmptyDict
    /\ all_results = <<>>
    /\ page_id = None
    /\ resp = NoResponse
    /\ ret = NoRet
    /\ sent = <<>>
    /\ served = <<>>
    /\ call_requests = 0
    /\ transport_errors = 0
    /\ action_data = <<>>
    /\ action_status = "running"

\* no RPZ rule action is running
RpzIdle ==
    /\ rpz_pc = "idle"
    /\ rule_type = ""
    /\ object_type = None
    /\ reference_id = None
    /\ name = None
    /\ substitute_name = None
    /\ rp_zone = None
    /\ formatted_name = [success |-> TRUE, name |-> None]
    /\ canonical_value = None

\* the two invocations of the interleaving
Invocations == {1, 2}

\* no paginated call has been made
TwinIdle ==
    /\ t_pc = [i \in Invocations |-> "idle"]
    /\ t_limit_arg = [i \in Invocations |-> None]
    /\ t_limit = [i \in Invocations |-> 0]
    /\ t_page_size = [i \in Invocations |-> 0]
    /\ t_paginated_params = [i \in Invocations |-> EmptyDict]
    /\ t_all_results = [i \in Invocations |-> <<>>]
    /\ t_page_id = [i \in Invocations |-> None]
    /\ t_ret = [i \in Invocations |-> NoRet]
    /\ t_sent = [i \in Invocations |-> <<>>]
    /\ t_served = [i \in Invocations |-> <<>>]

\* no lookup action is running
LookupIdle ==
    /\ lookup_pc = "idle"
    /\ lookup_action = "none"
    /\ limit_param = None

\* no JSON response is being looked at
ErrIdle ==
    /\ err_pc = "idle"
    /\ err_status = 0
    /\ err_body = [shape |-> "empty", Error |-> <<>>, error |-> <<>>,
                   text |-> <<>>, msg |-> <<>>]
    /\ err_ret = [ret_val |-> "none",
                  message |-> [kind |-> "none", code |-> 0, detail |-> <<>>]]

RuleIdle ==
    /\ rule_action = "none"
    /\ additional_parameters = [shape |-> "absent", entries |-> <<>>]
    /\ rule_data = <<>>

Init == CallsIdle /\ RpzIdle /\ TwinIdle /\ LookupIdle /\ ErrIdle /\ RuleIdle

----------------------------------------------------------------------------
(* make_rest_call.                                                         *)

\* fault seeded for C9: one more verb let through
SupportedMethodWithHead(m) == m \in {GET, POST, PUT, PATCH, DELETE, HEAD}

\* method not in ["get", "post", "put", "patch", "delete"] is false
SupportedMethod(m) == m \in {GET, POST, PUT, PATCH, DELETE}

\* what make_rest_call returns when the method is rejected
UnsupportedMethodRetVal(m) == RetVal(APP_ERROR, None, MethodMsg(m))

\* fault seeded for C14: an empty dict returned along with the exception
ExceptionRetValWithBody == RetVal(APP_ERROR, Some(EmptyObject), StatusMsg("connect_error", 0))

\* what make_rest_call returns when request_func raises
ExceptionRetVal == RetVal(APP_ERROR, None, StatusMsg("connect_error", 0))

\* fault seeded for C6: the page call's RetVal handed on with its body
PageFailureKeepsData(rv) == rv

\* what make_paginated_rest_call returns when the page call failed
PageFailureRetVal(rv) == RetVal(rv.ret_val, None, rv.message)

\* the headers dict after "add JSON content type if not specified"
WithContentType(h) ==
    IF "Content-Type" \in DOMAIN h THEN h ELSE DictSet(h, "Content-Type", "application/json")

\* the dict make_rest_call works on: a new {} when headers is None, the
\* caller's own dict otherwise
HeadersObject(h) == IF h = None THEN EmptyDict ELSE h[1]

\* the caller's headers object once make_rest_call has run its first lines
CallerHeadersAfter(h) == IF h = None THEN None ELSE Some(WithContentType(h[1]))

\* make_rest_call from its entry to the call of request_func: either the
\* method is rejected and the call returns, or the one request is issued
make_rest_call_begin(md, m, p, h) ==
    /\ resp' = NoResponse
    /\ headers' = CallerHeadersAfter(h)
    /\ IF SupportedMethod(Lower(m))
       THEN /\ sent' = Append(sent, [method |-> Lower(m), params |-> p,
                                     headers |-> WithContentType(HeadersObject(h))])
            /\ call_requests' = 1
            /\ pc' = "awaiting"
            /\ ret' = ret
       ELSE /\ sent' = sent
            /\ call_requests' = 0
            /\ pc' = "returned"
            /\ ret' = IF md = "paged"
                      THEN PageFailureRetVal(UnsupportedMethodRetVal(Lower(m)))
                      ELSE UnsupportedMethodRetVal(Lower(m))

\* an action calls make_rest_call directly
DirectCall ==
    /\ pc = "idle"
    /\ \E m \in Methods, p \in ParamChoices :
       \E h \in HeadersWith(HeaderChoices, None, p) :
        /\ mode' = "direct"
        /\ caller' = "action"
        /\ method' = m
        /\ params' = p
        /\ headers_arg' = h
        /\ make_rest_call_begin("direct", m, p, h)
    /\ UNCHANGED <<rpz_vars, twin_vars, lookup_vars, err_vars, rule_vars, limit_arg, page_size_arg, paged_locals, served, transport_errors,
                   action_vars>>

----------------------------------------------------------------------------
(* make_paginated_rest_call.                                               *)

\* limit / page_size after the defaults are applied
EffectiveLimit(l) == IF l = None THEN DEFAULT_MAX_RESULTS ELSE l[1]
EffectivePageSize(ps) == IF ps = None THEN DEFAULT_PAGE_SIZE ELSE ps[1]

\* params.copy() if params else {}
CopyParams(p) == IF p = None \/ p[1] = EmptyDict THEN EmptyDict ELSE p[1]

\* fault seeded for C8: the flags set only where the caller set none
InitialParamsSetDefault(p, ps, l) ==
    LET c == CopyParams(p)
        a == IF "_paging" \in DOMAIN c THEN c ELSE DictSet(c, "_paging", 1)
        b == IF "_return_as_object" \in DOMAIN a THEN a ELSE DictSet(a, "_return_as_object", 1)
    IN  DictSet(b, "_max_results", Min(ps, l))

\* fault seeded for C28: a _max_results of the caller is kept
InitialParamsKeepsMaxResults(p, ps, l) ==
    LET c == DictSet(DictSet(CopyParams(p), "_paging", 1), "_return_as_object", 1)
    IN  IF "_max_results" \in DOMAIN c THEN c ELSE DictSet(c, "_max_results", Min(ps, l))

\* paginated_params before the loop
InitialParams(p, ps, l) ==
    DictSet(DictSet(DictSet(CopyParams(p), "_paging", 1), "_return_as_object", 1),
            "_max_results", Min(ps, l))

\* fault seeded for C4: a _page_id of the caller is not removed
WithPageIdNoPop(pp, pid) ==
    IF Truthy(pid) THEN DictSet(pp, "_page_id", pid[1]) ELSE pp

\* the top of the loop body: set or remove _page_id
WithPageId(pp, pid) ==
    IF Truthy(pid) THEN DictSet(pp, "_page_id", pid[1]) ELSE DictPop(pp, "_page_id")

\* page_results of a successful response
PageResults(response) ==
    IF response.shape = "object"
    THEN IF response.result = None THEN <<>> ELSE response.result[1]
    ELSE IF response.shape = "array" THEN response.items ELSE <<0>>

\* fault seeded for C7: the cursor of the page before survives a bare array
NextPageIdKeepsCursor(response) ==
    IF response.shape = "object" THEN response.next_page_id ELSE page_id

\* page_id of a successful response
NextPageId(response) ==
    IF response.shape = "object" THEN response.next_page_id ELSE None

\* fault seeded for C2: a page put in front of the earlier ones
ExtendInFront(results, page_results) == page_results \o results

\* all_results.extend(page_results)
Extend(results, page_results) == results \o page_results

\* fault seeded for C5: the loop goes on at exactly `limit` records
StopPagingPastLimit(pid, results, l) == ~Truthy(pid) \/ Len(results) > l

\* not page_id or len(all_results) >= limit
StopPaging(pid, results, l) == ~Truthy(pid) \/ Len(results) >= l

\* fault seeded for C29: the records already held are not subtracted
NextMaxResultsWholeLimit(ps, l, results) == Min(ps, l)

\* fault seeded for C3: the page size not adjusted to what remains
NextMaxResultsWholePage(ps, l, results) == ps

\* min(page_size, remaining)
NextMaxResults(ps, l, results) == Min(ps, l - Len(results))

\* fault seeded for C1: no final trim
FinalResultsUntrimmed(results, l) == results

\* all_results[:limit]
FinalResults(results, l) == Take(results, l)

\* the entry of make_paginated_rest_call, up to the loop
paginated_begin(c, m, l, ps, p, h) ==
    /\ pc = "idle"
    /\ mode' = "paged"
    /\ caller' = c
    /\ method' = m
    /\ limit_arg' = l
    /\ page_size_arg' = ps
    /\ params' = p
    /\ headers_arg' = h
    /\ headers' = h
    /\ limit' = EffectiveLimit(l)
    /\ page_size' = EffectivePageSize(ps)
    /\ paginated_params' = InitialParams(p, EffectivePageSize(ps), EffectiveLimit(l))
    /\ all_results' = <<>>
    /\ page_id' = None
    /\ pc' = "loop"
    /\ UNCHANGED <<rpz_vars, twin_vars, resp, ret, sent, served, call_requests,
                   transport_errors, action_vars>>

\* any caller of make_paginated_rest_call
make_paginated_rest_call ==
    \E m \in PagedMethods, l \in Limits, ps \in PageSizes, p \in ParamChoices :
        \E h \in HeadersWith(PagedHeaderChoices, ps, p) :
            /\ paginated_begin("other", m, l, ps, p, h)
            /\ UNCHANGED <<lookup_vars, err_vars, rule_vars>>

\* the params DhcpLeaseLookupAction builds for a limit parameter
DhcpQueryParams(l) ==
    ("_max_results" :> (IF l = None THEN DEFAULT_LIMIT ELSE l[1]))
        @@ ("_return_fields" :> "address,binding_state")

\* DhcpLeaseLookupAction: validated parameters, then the paginated call
DhcpLeaseLookup ==
    \E l \in Limits :
        /\ paginated_begin("dhcp", GET, l, None, Some(DhcpQueryParams(l)), None)
        /\ UNCHANGED <<lookup_vars, err_vars, rule_vars>>

\* one turn of the loop, up to the request being on the wire
FetchPage ==
    /\ pc = "loop"
    /\ paginated_params' = WithPageId(paginated_params, page_id)
    /\ make_rest_call_begin("paged", method, paginated_params', headers)
    /\ UNCHANGED <<rpz_vars, twin_vars, lookup_vars, err_vars, rule_vars, call_args, limit, page_size, all_results, page_id, served,
                   transport_errors, action_vars>>

----------------------------------------------------------------------------
(* The server.                                                             *)

\* the entries a response carries as its page: the "result" array of an
\* object, or the elements of a bare array
ServedRecords(r) ==
    IF r.body.text # "json" THEN <<>>
    ELSE IF r.body.json.shape = "object"
    THEN IF r.body.json.result = None THEN <<>> ELSE r.body.json.result[1]
    ELSE r.body.json.items

\* the "next_page_id" member of a response, None when there is none
ServedCursor(r) ==
    IF r.body.text = "json" /\ r.body.json.shape = "object"
    THEN r.body.json.next_page_id
    ELSE None

RECURSIVE ServedConcat(_)
\* the entries of the responses in log, in order
ServedConcat(log) ==
    IF log = <<>> THEN <<>>
    ELSE ServedConcat(SubSeq(log, 1, Len(log) - 1)) \o ServedRecords(log[Len(log)])

\* the answers the server may give to the request on the wire
PagedResponses ==
    {Response(c, ct, b) :
        c \in PagedStatusCodes, ct \in PagedContentTypes,
        b \in Bodies(Len(ServedConcat(served)),
                     IF Len(sent) < MaxRequests THEN {CursorTokens[Len(sent)]} ELSE {})}

----------------------------------------------------------------------------
(* The request ends.                                                       *)

\* request_func raises (connection error, timeout, TLS error)
TransportError ==
    /\ pc = "awaiting"
    /\ transport_errors' = transport_errors + 1
    /\ ret' = IF mode = "paged" THEN PageFailureRetVal(ExceptionRetVal) ELSE ExceptionRetVal
    /\ pc' = "returned"
    /\ UNCHANGED <<rpz_vars, twin_vars, lookup_vars, err_vars, rule_vars, call_args, headers, paged_locals, resp, sent, served, call_requests,
                   action_vars>>

\* a direct make_rest_call gets its response and returns
ReceiveDirect ==
    /\ pc = "awaiting"
    /\ mode = "direct"
    /\ \E r \in DirectResponses :
        /\ resp' = r
        /\ served' = Append(served, r)
        /\ ret' = process_response(r)
    /\ pc' = "returned"
    /\ UNCHANGED <<rpz_vars, twin_vars, lookup_vars, err_vars, rule_vars, call_args, headers, paged_locals, sent, call_requests,
                   transport_errors, action_vars>>

\* the rest of the loop body once make_rest_call returned rv
after_page_call(rv) ==
    IF is_fail(rv.ret_val)
    THEN /\ ret' = PageFailureRetVal(rv)
         /\ pc' = "returned"
         /\ UNCHANGED <<paginated_params, all_results, page_id>>
    ELSE LET response == rv.data[1]
             results == Extend(all_results, PageResults(response))
             pid == NextPageId(response)
         IN  /\ all_results' = results
             /\ page_id' = pid
             /\ IF StopPaging(pid, results, limit)
                THEN /\ ret' = RetVal(APP_SUCCESS, Some(FinalResults(results, limit)), NoMsg)
                     /\ pc' = "returned"
                     /\ UNCHANGED paginated_params
                ELSE /\ paginated_params' =
                            DictSet(paginated_params, "_max_results",
                                    NextMaxResults(page_size, limit, results))
                     /\ pc' = "loop"
                     /\ UNCHANGED ret

\* a page request gets its response; the loop body runs to its end
ReceivePage ==
    /\ pc = "awaiting"
    /\ mode = "paged"
    /\ \E r \in PagedResponses :
        /\ resp' = r
        /\ served' = Append(served, r)
        /\ after_page_call(process_response(r))
    /\ UNCHANGED <<rpz_vars, twin_vars, lookup_vars, err_vars, rule_vars, call_args, headers, limit, page_size, sent, call_requests,
                   transport_errors, action_vars>>

----------------------------------------------------------------------------
(* DhcpLeaseLookupAction.execute after the paginated call returned.        *)

\* result.copy() works on a record (a dict), not on a scalar entry
IsRecord(x) == x >= 1

DhcpHandle ==
    /\ pc = "returned"
    /\ caller = "dhcp"
    /\ IF is_fail(ret.ret_val)
       THEN /\ action_status' = "failure"
            /\ UNCHANGED action_data
       ELSE IF \A i \in DOMAIN ret.data[1] : IsRecord(ret.data[1][i])
       THEN /\ action_data' = action_data \o ret.data[1]
            /\ action_status' = "success"
       ELSE /\ action_status' = "raised"
            /\ UNCHANGED action_data
    /\ pc' = "finished"
    /\ UNCHANGED <<rpz_vars, twin_vars, lookup_vars, err_vars, rule_vars, call_args, headers, paged_locals, resp, ret, sent, served,
                   call_requests, transport_errors>>

Next ==
    \/ DirectCall
    \/ make_paginated_rest_call
    \/ DhcpLeaseLookup
    \/ FetchPage
    \/ TransportError
    \/ ReceiveDirect
    \/ ReceivePage
    \/ DhcpHandle

Spec == Init /\ [][Next]_vars

----------------------------------------------------------------------------
(* The RPZ CNAME helpers: format_rpz_cname_name and                        *)
(* prepare_rpz_cname_canonical_value. A string is a sequence of            *)
(* characters; a literal of the source is a sequence of one token.         *)

MaxNameLen == 3
MaxZoneLen == 1

RULE_TYPE_PASSTHRU == "Passthru"
RULE_TYPE_BLOCK_NO_DOMAIN == "Block (No such domain)"
RULE_TYPE_BLOCK_NO_DATA == "Block (No data)"
RULE_TYPE_SUBSTITUTE == "Substitute (domain name)"

CANONICAL_PASSTHRU == <<"rpz-passthru">>
\* fault seeded for C15: the two block literals are the same
CANONICAL_BLOCK_NO_DOMAIN_Star == <<"*">>
CANONICAL_BLOCK_NO_DOMAIN == <<>>
CANONICAL_BLOCK_NO_DATA == <<"*">>
INFOBLOX_PASSTHRU == <<"infoblox-passthru">>

OBJECT_TYPE_DOMAIN == "Domain Name"
OBJECT_TYPE_IP == "IP address"
OBJECT_TYPE_CLIENT_IP == "Client IP Address"

\* `not s` is false for an optional string: it is given and not ""
NonEmpty(s) == s # None /\ s[1] # <<>>

\* s.startswith(t), s.endswith(t), `t in s` for a token t
StartsWith(s, t) == Len(t) <= Len(s) /\ SubSeq(s, 1, Len(t)) = t
EndsWith(s, t) == Len(t) <= Len(s) /\ SubSeq(s, Len(s) - Len(t) + 1, Len(s)) = t
Contains(s, t) == \E i \in DOMAIN s : s[i] = t

\* fault seeded for C18: the zone is appended without looking at the name
format_rpz_cname_name_always_appends(n, z) ==
    IF ~NonEmpty(n) \/ ~NonEmpty(z)
    THEN [success |-> TRUE, name |-> None]
    ELSE [success |-> TRUE, name |-> Some(n[1] \o <<".">> \o z[1])]

format_rpz_cname_name(n, z) ==
    IF ~NonEmpty(n) \/ ~NonEmpty(z)
    THEN [success |-> TRUE, name |-> None]
    ELSE IF EndsWith(n[1], <<".">> \o z[1])
         THEN [success |-> TRUE, name |-> n]
         ELSE [success |-> TRUE, name |-> Some(n[1] \o <<".">> \o z[1])]

\* fault seeded for C30: the reference id is read also when an object type
\* is given
ObjectTypeReferenceFirst(ot, ref) ==
    IF NonEmpty(ref)
    THEN IF Contains(ref[1], ":ipaddress/") THEN Some(OBJECT_TYPE_IP)
         ELSE IF Contains(ref[1], ":clientipaddress/") THEN Some(OBJECT_TYPE_CLIENT_IP)
         ELSE Some(OBJECT_TYPE_DOMAIN)
    ELSE ot

\* the object type the function works with: the argument, or the one read
\* off the reference id when only that is given
ObjectTypeFromReference(ot, ref) ==
    IF NonEmpty(ref) /\ ot = None
    THEN IF Contains(ref[1], ":ipaddress/") THEN Some(OBJECT_TYPE_IP)
         ELSE IF Contains(ref[1], ":clientipaddress/") THEN Some(OBJECT_TYPE_CLIENT_IP)
         ELSE Some(OBJECT_TYPE_DOMAIN)
    ELSE ot

\* fault seeded for C16: no special case for a wildcard name
PassthruValueNoWildcard(ot, n) ==
    IF ot = Some(OBJECT_TYPE_DOMAIN) THEN n
    ELSE IF ot = Some(OBJECT_TYPE_IP) THEN n
    ELSE Some(CANONICAL_PASSTHRU)

PassthruValue(ot, n) ==
    IF ot = Some(OBJECT_TYPE_DOMAIN)
    THEN IF NonEmpty(n) /\ StartsWith(n[1], <<"*">>)
         THEN Some(INFOBLOX_PASSTHRU)
         ELSE n
    ELSE IF ot = Some(OBJECT_TYPE_IP) THEN n
    ELSE Some(CANONICAL_PASSTHRU)

\* fault seeded for C17: a non-domain object falls back to block (no data)
SubstituteValueFallsBack(ot, sub) ==
    IF ot = Some(OBJECT_TYPE_DOMAIN) THEN sub ELSE Some(CANONICAL_BLOCK_NO_DATA)

SubstituteValue(ot, sub) ==
    IF ot = Some(OBJECT_TYPE_DOMAIN) THEN sub ELSE None

prepare_rpz_cname_canonical_value(rt, n, sub, ot, ref) ==
    LET resolved == ObjectTypeFromReference(ot, ref) IN
    IF rt = RULE_TYPE_BLOCK_NO_DOMAIN THEN Some(CANONICAL_BLOCK_NO_DOMAIN)
    ELSE IF rt = RULE_TYPE_BLOCK_NO_DATA THEN Some(CANONICAL_BLOCK_NO_DATA)
    ELSE IF rt = RULE_TYPE_PASSTHRU THEN PassthruValue(resolved, n)
    ELSE IF rt = RULE_TYPE_SUBSTITUTE THEN SubstituteValue(resolved, sub)
    ELSE Some(CANONICAL_BLOCK_NO_DATA)

\* the strings of at most n characters over an alphabet
RECURSIVE Strings(_, _)
Strings(alphabet, n) ==
    IF n = 0 THEN {<<>>}
    ELSE LET shorter == Strings(alphabet, n - 1) IN
         shorter \cup {Append(s, c) : s \in shorter, c \in alphabet}

RuleTypes ==
    {RULE_TYPE_PASSTHRU, RULE_TYPE_BLOCK_NO_DOMAIN, RULE_TYPE_BLOCK_NO_DATA,
     RULE_TYPE_SUBSTITUTE, "Redirect"}
ObjectTypes == {OBJECT_TYPE_DOMAIN, OBJECT_TYPE_IP, OBJECT_TYPE_CLIENT_IP}

\* reference ids of a domain, an address and a client-address rule
DomainReference == <<"record:rpz:cname", "/ZG5z", ":", "a.a", "/default">>
IpReference == <<"record:rpz:cname", ":ipaddress/", "ZG5z", ":", "a.a", "/default">>
ClientIpReference == <<"record:rpz:cname", ":clientipaddress/", "ZG5z", ":", "a.a", "/default">>
References == {DomainReference, IpReference, ClientIpReference}

\* the create action passes object_type, the update action reference_id;
\* an object_type that is given wins over the reference id
ObjectArguments ==
    {<<Some(ot), None>> : ot \in ObjectTypes}
        \cup {<<None, Some(ref)>> : ref \in References}
        \cup {<<None, None>>, <<None, Some(<<>>)>>,
              <<Some(OBJECT_TYPE_DOMAIN), Some(IpReference)>>}

Names == {None} \cup {Some(s) : s \in Strings({"a", ".", "*"}, MaxNameLen)}
Zones == {None} \cup {Some(s) : s \in Strings({"a", "."}, MaxZoneLen)}
SubstituteNames == {None, Some(<<"b", ".", "a">>)}

\* an RPZ CNAME rule action starts with its parameters
RpzInit ==
    /\ CallsIdle
    /\ rpz_pc = "start"
    /\ rule_type \in RuleTypes
    /\ \E oa \in ObjectArguments : object_type = oa[1] /\ reference_id = oa[2]
    /\ name \in Names
    /\ substitute_name \in SubstituteNames
    /\ rp_zone \in Zones
    /\ formatted_name = [success |-> TRUE, name |-> None]
    /\ canonical_value = None
    /\ TwinIdle
    /\ LookupIdle
    /\ ErrIdle
    /\ RuleIdle

\* __format_name
FormatName ==
    /\ rpz_pc = "start"
    /\ formatted_name' = format_rpz_cname_name(name, rp_zone)
    /\ rpz_pc' = "named"
    /\ UNCHANGED <<rpz_params, canonical_value>>
    /\ UNCHANGED <<main_vars, twin_vars, lookup_vars, err_vars, rule_vars>>

\* __prepare_canonical_value
PrepareCanonical ==
    /\ rpz_pc = "named"
    /\ canonical_value' = prepare_rpz_cname_canonical_value(
                              rule_type, name, substitute_name, object_type,
                              reference_id)
    /\ rpz_pc' = "prepared"
    /\ UNCHANGED <<rpz_params, formatted_name>>
    /\ UNCHANGED <<main_vars, twin_vars, lookup_vars, err_vars, rule_vars>>

RpzNext == FormatName \/ PrepareCanonical

RpzSpec == RpzInit /\ [][RpzNext]_vars

----------------------------------------------------------------------------
(* Two invocations of make_paginated_rest_call, interleaved request by     *)
(* request. Each has the locals of its own call frame.                     *)

MaxTwinRequests == 2

\* the limit arguments of the two calls
TwinLimits == {None, Some(MaxLimit)}

\* the server's records and cursors for invocation i: no record and no
\* cursor is handed to both invocations
TwinRecords(i, k) == Records(100 * i + Len(ServedConcat(t_served[i])), k)
TwinCursors(i) ==
    IF Len(t_sent[i]) < MaxTwinRequests
    THEN {CursorTokens[3 * (i - 1) + Len(t_sent[i])]}
    ELSE {}

\* the answers the server may give to the request of invocation i
TwinResponses(i) ==
    {Response(404, "application/json", EmptyBody)}
    \cup {Response(200, "application/json", JsonBody(JsonArray(TwinRecords(i, k)))) :
            k \in 0..MaxPageLen}
    \cup {Response(200, "application/json",
                   JsonBody(JsonObject(Some(TwinRecords(i, k)), nxt))) :
            k \in 1..MaxPageLen, nxt \in {None} \cup {Some(t) : t \in TwinCursors(i)}}

\* fault seeded for C20: the cursor kept in one place for all invocations
SharedCursor(pid, i) == pid[1]

\* page_id is a local of the invocation
CursorOf(pid, i) == pid[i]

\* two callers are about to call, each with its own limit
TwinInit ==
    /\ CallsIdle
    /\ RpzIdle
    /\ t_pc = [i \in Invocations |-> "idle"]
    /\ t_limit_arg \in [Invocations -> TwinLimits]
    /\ t_limit = [i \in Invocations |-> 0]
    /\ t_page_size = [i \in Invocations |-> 0]
    /\ t_paginated_params = [i \in Invocations |-> EmptyDict]
    /\ t_all_results = [i \in Invocations |-> <<>>]
    /\ t_page_id = [i \in Invocations |-> None]
    /\ t_ret = [i \in Invocations |-> NoRet]
    /\ t_sent = [i \in Invocations |-> <<>>]
    /\ t_served = [i \in Invocations |-> <<>>]
    /\ LookupIdle
    /\ ErrIdle
    /\ RuleIdle

\* invocation i enters make_paginated_rest_call and reaches the loop
TwinBegin(i) ==
    /\ t_pc[i] = "idle"
    /\ t_limit' = [t_limit EXCEPT ![i] = EffectiveLimit(t_limit_arg[i])]
    /\ t_page_size' = [t_page_size EXCEPT ![i] = EffectivePageSize(None)]
    /\ t_paginated_params' =
           [t_paginated_params EXCEPT ![i] =
                InitialParams(None, EffectivePageSize(None),
                              EffectiveLimit(t_limit_arg[i]))]
    /\ t_all_results' = [t_all_results EXCEPT ![i] = <<>>]
    /\ t_page_id' = [t_page_id EXCEPT ![i] = None]
    /\ t_pc' = [t_pc EXCEPT ![i] = "loop"]
    /\ UNCHANGED <<t_limit_arg, t_ret, t_sent, t_served>>
    /\ UNCHANGED <<main_vars, rpz_vars, lookup_vars, err_vars, rule_vars>>

\* invocation i runs the top of its loop body and issues its request
TwinFetchPage(i) ==
    /\ t_pc[i] = "loop"
    /\ LET pp == WithPageId(t_paginated_params[i], CursorOf(t_page_id, i)) IN
        /\ t_paginated_params' = [t_paginated_params EXCEPT ![i] = pp]
        /\ t_sent' = [t_sent EXCEPT ![i] = Append(@, pp)]
    /\ t_pc' = [t_pc EXCEPT ![i] = "awaiting"]
    /\ UNCHANGED <<t_limit_arg, t_limit, t_page_size, t_all_results, t_page_id,
                   t_ret, t_served>>
    /\ UNCHANGED <<main_vars, rpz_vars, lookup_vars, err_vars, rule_vars>>

\* invocation i gets its response; its loop body runs to its end
TwinReceivePage(i) ==
    /\ t_pc[i] = "awaiting"
    /\ \E r \in TwinResponses(i) :
        LET rv == process_response(r) IN
        /\ t_served' = [t_served EXCEPT ![i] = Append(@, r)]
        /\ IF is_fail(rv.ret_val)
           THEN /\ t_ret' = [t_ret EXCEPT ![i] = PageFailureRetVal(rv)]
                /\ t_pc' = [t_pc EXCEPT ![i] = "returned"]
                /\ UNCHANGED <<t_paginated_params, t_all_results, t_page_id>>
           ELSE LET response == rv.data[1]
                    results == Extend(t_all_results[i], PageResults(response))
                    pid == NextPageId(response)
                IN  /\ t_all_results' = [t_all_results EXCEPT ![i] = results]
                    /\ t_page_id' = [t_page_id EXCEPT ![i] = pid]
                    /\ IF StopPaging(pid, results, t_limit[i])
                       THEN /\ t_ret' = [t_ret EXCEPT ![i] =
                                   RetVal(APP_SUCCESS,
                                          Some(FinalResults(results, t_limit[i])),
                                          NoMsg)]
                            /\ t_pc' = [t_pc EXCEPT ![i] = "returned"]
                            /\ UNCHANGED t_paginated_params
                       ELSE /\ t_paginated_params' =
                                   [t_paginated_params EXCEPT ![i] =
                                        DictSet(@, "_max_results",
                                                NextMaxResults(t_page_size[i],
                                                               t_limit[i], results))]
                            /\ t_pc' = [t_pc EXCEPT ![i] = "loop"]
                            /\ UNCHANGED t_ret
    /\ UNCHANGED <<t_limit_arg, t_limit, t_page_size, t_sent>>
    /\ UNCHANGED <<main_vars, rpz_vars, lookup_vars, err_vars, rule_vars>>

TwinNext ==
    \E i \in Invocations :
        \/ TwinBegin(i)
        \/ TwinFetchPage(i)
        \/ TwinReceivePage(i)

TwinSpec == TwinInit /\ [][TwinNext]_vars

----------------------------------------------------------------------------
(* make_paginated_rest_call against a server that may hand out a cursor   *)
(* with every page, for ever. The requests are not logged here, so that a  *)
(* call that never returns is a cycle of states.                           *)

\* limits >= 1
LoopLimits == {Some(n) : n \in 1..MaxLimit}

\* the answers the server may give: any page, always with a cursor on offer
LoopResponses ==
    {Response(c, "application/json", b) :
        c \in PagedStatusCodes, b \in Bodies(Len(all_results), {CursorTokens[1]})}

\* a caller enters make_paginated_rest_call
LoopBegin ==
    \E l \in LoopLimits, ps \in PageSizes :
        /\ paginated_begin("other", GET, l, ps, None, None)
        /\ UNCHANGED <<lookup_vars, err_vars, rule_vars>>

\* the top of the loop body and the request of make_rest_call
LoopFetchPage ==
    /\ pc = "loop"
    /\ SupportedMethod(Lower(method))
    /\ paginated_params' = WithPageId(paginated_params, page_id)
    /\ resp' = NoResponse
    /\ headers' = CallerHeadersAfter(headers)
    /\ call_requests' = 1
    /\ pc' = "awaiting"
    /\ UNCHANGED <<rpz_vars, twin_vars, lookup_vars, err_vars, rule_vars, call_args, limit, page_size, all_results,
                   page_id, ret, sent, served, transport_errors, action_vars>>

\* the response arrives; the loop body runs to its end
LoopReceivePage ==
    /\ pc = "awaiting"
    /\ \E r \in LoopResponses :
        /\ resp' = r
        /\ after_page_call(process_response(r))
    /\ UNCHANGED <<rpz_vars, twin_vars, lookup_vars, err_vars, rule_vars, call_args, headers, limit, page_size, sent,
                   served, call_requests, transport_errors, action_vars>>

LoopNext == LoopBegin \/ LoopFetchPage \/ LoopReceivePage

\* the call runs on, and every request gets its response
LoopSpec ==
    /\ Init
    /\ [][LoopNext]_vars
    /\ WF_vars(LoopFetchPage)
    /\ WF_vars(LoopReceivePage)

----------------------------------------------------------------------------
(* The lookup actions that take a limit: parameter validation with         *)
(* Validator.validate_integer, then the paginated call. A number is held   *)
(* in tenths, so that 25 is 2.5 and 20 is 2.                               *)

LIST_HOST_INFO_DEFAULT_LIMIT == 100
LIST_NETWORK_INFO_DEFAULT_LIMIT == 100

LookupActions == {"dhcp", "ip", "host", "network", "search", "zone"}

Number(t) == [kind |-> "number", tenths |-> t]
Text == [kind |-> "text", tenths |-> 0]

\* the limit parameter: absent, not a number, or a number
LimitParams ==
    {None, Some(Text)}
    \cup {Some(Number(t)) : t \in {-10, -5, 0, 5, 15}}
    \cup {Some(Number(10 * n)) : n \in 1..MaxLimit}

\* float(parameter).is_integer() and int(parameter)
IsInteger(v) == v.tenths % 10 = 0
IntOf(v) == v.tenths \div 10

InvalidInteger == RetVal(APP_ERROR, None, StatusMsg("invalid_integer", 0))
ZeroInteger == RetVal(APP_ERROR, None, StatusMsg("zero_integer", 0))
NegativeInteger == RetVal(APP_ERROR, None, StatusMsg("negative_integer", 0))

\* fault seeded for C23: zero is let through whatever allow_zero says
validate_integer_zero_allowed(parameter, allow_zero, allow_negative) ==
    IF parameter = None THEN RetVal(APP_SUCCESS, None, NoMsg)
    ELSE IF parameter[1].kind # "number" THEN InvalidInteger
    ELSE IF ~IsInteger(parameter[1]) THEN InvalidInteger
    ELSE IF ~allow_negative /\ IntOf(parameter[1]) < 0 THEN NegativeInteger
    ELSE RetVal(APP_SUCCESS, Some(IntOf(parameter[1])), NoMsg)

validate_integer(parameter, allow_zero, allow_negative) ==
    IF parameter = None THEN RetVal(APP_SUCCESS, None, NoMsg)
    ELSE IF parameter[1].kind # "number" THEN InvalidInteger
    ELSE IF ~IsInteger(parameter[1]) THEN InvalidInteger
    ELSE IF ~allow_zero /\ IntOf(parameter[1]) = 0 THEN ZeroInteger
    ELSE IF ~allow_negative /\ IntOf(parameter[1]) < 0 THEN NegativeInteger
    ELSE RetVal(APP_SUCCESS, Some(IntOf(parameter[1])), NoMsg)

\* the parameter as the action reads it back after validation: the number
\* itself, not the validator's result
ParamValue(p) == IF p = None THEN None ELSE Some(IntOf(p[1]))

\* the limit argument of the paginated call
LimitArgument(a, p) ==
    IF p # None THEN ParamValue(p)
    ELSE IF a \in {"dhcp", "ip"} THEN None
    ELSE IF a = "host" THEN Some(LIST_HOST_INFO_DEFAULT_LIMIT)
    ELSE IF a = "network" THEN Some(LIST_NETWORK_INFO_DEFAULT_LIMIT)
    ELSE Some(DEFAULT_MAX_RESULTS)

\* the params argument of the paginated call
LookupParams(a, p) ==
    IF a \in {"dhcp", "ip"} THEN Some(DhcpQueryParams(ParamValue(p)))
    ELSE IF a = "host"
    THEN Some("_max_results" :>
                (IF p = None THEN LIST_HOST_INFO_DEFAULT_LIMIT ELSE IntOf(p[1])))
    ELSE Some("_return_fields" :> "fqdn,comment")

\* an action is about to run with its limit parameter
LookupInit ==
    /\ CallsIdle
    /\ RpzIdle
    /\ TwinIdle
    /\ ErrIdle
    /\ RuleIdle
    /\ lookup_pc = "start"
    /\ lookup_action \in LookupActions
    /\ limit_param \in LimitParams

\* execute: the parameters are validated; the paginated call is entered
\* only when that passes
LookupExecute ==
    /\ lookup_pc = "start"
    /\ IF is_fail(validate_integer(limit_param, FALSE, FALSE).ret_val)
       THEN /\ action_status' = "failure"
            /\ lookup_pc' = "failed"
            /\ UNCHANGED <<rpz_vars, twin_vars, pc, call_args, headers,
                           paged_locals, resp, ret, sent, served, call_requests,
                           transport_errors, action_data>>
       ELSE /\ paginated_begin(IF lookup_action = "dhcp" THEN "dhcp" ELSE "other",
                               GET, LimitArgument(lookup_action, limit_param), None,
                               LookupParams(lookup_action, limit_param), None)
            /\ lookup_pc' = "called"
    /\ UNCHANGED <<lookup_action, limit_param, err_vars, rule_vars>>

\* the action adds every entry it got to its result
LookupHandle ==
    /\ pc = "returned"
    /\ caller = "other"
    /\ IF is_fail(ret.ret_val)
       THEN /\ action_status' = "failure"
            /\ UNCHANGED action_data
       ELSE /\ action_data' = action_data \o ret.data[1]
            /\ action_status' = "success"
    /\ pc' = "finished"
    /\ UNCHANGED <<rpz_vars, twin_vars, lookup_vars, err_vars, rule_vars, call_args, headers, paged_locals,
                   resp, ret, sent, served, call_requests, transport_errors>>

LookupNext ==
    \/ LookupExecute
    \/ FetchPage
    \/ TransportError
    \/ ReceivePage
    \/ DhcpHandle
    \/ LookupHandle

LookupSpec == LookupInit /\ [][LookupNext]_vars

----------------------------------------------------------------------------
(* The message of _process_json_response: the status code and the detail   *)
(* taken from the keys of an error body.                                   *)

\* a parsed body with the four keys the code looks at; a key is absent
\* (None), an empty string, or a text
ErrorObject(E, e, t, m) ==
    [shape |-> "object", Error |-> E, error |-> e, text |-> t, msg |-> m]
NotAnObject(shape) ==
    [shape |-> shape, Error |-> None, error |-> None, text |-> None, msg |-> None]

KeyValues(v) == {None, Some(""), Some(v)}

\* the bodies: objects, a JSON array, a JSON scalar, no text, blanks, and
\* text that does not parse
ErrorBodies ==
    {ErrorObject(E, e, t, m) :
        E \in KeyValues("E"), e \in KeyValues("e"), t \in KeyValues("t"),
        m \in KeyValues("m")}
    \cup {NotAnObject(s) : s \in {"array", "scalar", "empty", "blank", "garbage"}}

NoDetail == <<>>
Detail(label, value) == <<label, value>>

ErrorMsg(kind, code, detail) == [kind |-> kind, code |-> code, detail |-> detail]

\* resp_json.get(k) or resp_json.get(k2)
GetOr(a, b) == IF Truthy(a) THEN a ELSE b

\* fault seeded for C25: `text` looked at before `Error`
error_detail_text_first(b) ==
    IF b.shape # "object" THEN NoDetail
    ELSE IF Truthy(b.text) THEN Detail("Details", b.text[1])
    ELSE IF Truthy(b.Error) \/ Truthy(b.error)
    THEN Detail("Error", GetOr(b.Error, b.error)[1])
    ELSE IF Truthy(b.msg) THEN Detail("Message", b.msg[1])
    ELSE NoDetail

\* what is appended to "Error from server. Status Code: N"
error_detail(b) ==
    IF b.shape # "object" THEN NoDetail
    ELSE IF Truthy(b.Error) \/ Truthy(b.error)
    THEN Detail("Error", GetOr(b.Error, b.error)[1])
    ELSE IF Truthy(b.text) THEN Detail("Details", b.text[1])
    ELSE IF Truthy(b.msg) THEN Detail("Message", b.msg[1])
    ELSE NoDetail

\* the status and the message _process_json_response ends with
json_response_message(code, b) ==
    IF b.shape \in {"empty", "blank"}
    THEN IF InSuccessRange(code)
         THEN [ret_val |-> APP_SUCCESS, message |-> ErrorMsg("none", 0, NoDetail)]
         ELSE [ret_val |-> APP_ERROR,
               message |-> ErrorMsg("status_code", code, NoDetail)]
    ELSE IF b.shape = "garbage"
    THEN [ret_val |-> APP_ERROR, message |-> ErrorMsg("json_parse", 0, NoDetail)]
    ELSE IF InSuccessRange(code)
    THEN [ret_val |-> APP_SUCCESS, message |-> ErrorMsg("none", 0, NoDetail)]
    ELSE [ret_val |-> APP_ERROR,
          message |-> ErrorMsg("status_code", code, error_detail(b))]

\* a JSON response has arrived
ErrInit ==
    /\ CallsIdle
    /\ RpzIdle
    /\ TwinIdle
    /\ LookupIdle
    /\ RuleIdle
    /\ err_pc = "start"
    /\ err_status \in StatusCodes
    /\ err_body \in ErrorBodies
    /\ err_ret = [ret_val |-> "none", message |-> ErrorMsg("none", 0, NoDetail)]

\* _process_json_response
ProcessJsonResponse ==
    /\ err_pc = "start"
    /\ err_ret' = json_response_message(err_status, err_body)
    /\ err_pc' = "done"
    /\ UNCHANGED <<err_status, err_body>>
    /\ UNCHANGED <<main_vars, rpz_vars, twin_vars, lookup_vars, rule_vars>>

ErrNext == ProcessJsonResponse

ErrSpec == ErrInit /\ [][ErrNext]_vars

----------------------------------------------------------------------------
(* The create and update RPZ CNAME rule actions: validation, the request   *)
(* body, the one request, the handling of the answer. A value of the body  *)
(* is an optional string, None being JSON null.                            *)

\* the additional_parameters string: not given, "{}", not JSON, or a JSON
\* object with its entries
AdditionalAbsent == [shape |-> "absent", entries |-> EmptyDict]
AdditionalEmpty == [shape |-> "empty", entries |-> EmptyDict]
AdditionalInvalid == [shape |-> "invalid", entries |-> EmptyDict]
AdditionalObject(d) == [shape |-> "object", entries |-> d]
AdditionalParameters ==
    {AdditionalAbsent, AdditionalEmpty, AdditionalInvalid,
     AdditionalObject("comment" :> Some(<<"c">>)),
     AdditionalObject("canonical" :> None),
     AdditionalObject("canonical" :> Some(<<"c", ".", "a">>))}

\* additional_params_str and additional_params_str != "{}"
AdditionalGiven(ap) == ap.shape \in {"invalid", "object"}

\* data.update(additional_params)
DictUpdate(d, e) == [k \in DOMAIN d \cup DOMAIN e |-> IF k \in DOMAIN e THEN e[k] ELSE d[k]]

\* json.loads of the string and the merge, skipped when the string does
\* not parse
MergeAdditional(d, ap) ==
    IF AdditionalGiven(ap) /\ ap.shape = "object" THEN DictUpdate(d, ap.entries) ELSE d

\* CreateRpzCnameRuleAction.__validate_params
create_validate_params(rt, ot, sub, ap) ==
    IF rt = RULE_TYPE_SUBSTITUTE /\ ~NonEmpty(sub) THEN APP_ERROR
    ELSE IF rt = RULE_TYPE_SUBSTITUTE /\ ot # Some(OBJECT_TYPE_DOMAIN) THEN APP_ERROR
    ELSE IF AdditionalGiven(ap) /\ ap.shape = "invalid" THEN APP_ERROR
    ELSE APP_SUCCESS

\* the object type UpdateRpzCnameRuleAction.__validate_params reads off the
\* reference id
UpdateObjectType(ref) ==
    IF Contains(ref[1], ":ipaddress/") THEN OBJECT_TYPE_IP
    ELSE IF Contains(ref[1], ":clientipaddress/") THEN OBJECT_TYPE_CLIENT_IP
    ELSE OBJECT_TYPE_DOMAIN

\* UpdateRpzCnameRuleAction.__validate_params
update_validate_params(rt, ref, sub, ap) ==
    IF ~NonEmpty(ref) \/ ~StartsWith(ref[1], <<"record:rpz:cname">>) THEN APP_ERROR
    ELSE IF rt = RULE_TYPE_SUBSTITUTE /\ ~NonEmpty(sub) THEN APP_ERROR
    ELSE IF rt = RULE_TYPE_SUBSTITUTE /\ UpdateObjectType(ref) # OBJECT_TYPE_DOMAIN
    THEN APP_ERROR
    ELSE IF AdditionalGiven(ap) /\ ap.shape = "invalid" THEN APP_ERROR
    ELSE APP_SUCCESS

\* the data dict of CreateRpzCnameRuleAction.__get_endpoint_and_prepare_data
create_data(fn, z, canonical, ap) ==
    MergeAdditional(
        ("name" :> fn) @@ ("rp_zone" :> z) @@ ("canonical" :> canonical)
            @@ ("view" :> Some(<<"default">>)),
        ap)

\* the data dict of UpdateRpzCnameRuleAction.__prepare_data
update_data(n, z, canonical, ap) ==
    LET fn == format_rpz_cname_name(n, z).name
        d0 == IF NonEmpty(n) /\ NonEmpty(z) /\ NonEmpty(fn)
              THEN "name" :> fn ELSE EmptyDict
        d1 == IF NonEmpty(z) THEN DictSet(d0, "rp_zone", z) ELSE d0
        d2 == IF canonical # None THEN DictSet(d1, "canonical", canonical) ELSE d1
    IN  MergeAdditional(d2, ap)

\* a reference id of another object kind
HostReference == <<"record:host", "/ZG5z", ":", "a.a", "/default">>

RuleNames == {None, Some(<<"a">>), Some(<<"*", ".", "a">>)}
RuleZones == {None, Some(<<"a">>)}
RuleSubstituteNames == {None, Some(<<>>), Some(<<"b", ".", "a">>)}
RuleObjectArguments ==
    [create |-> {<<Some(ot), None>> : ot \in ObjectTypes},
     update |-> {<<None, Some(ref)>> : ref \in References \cup {HostReference, <<>>}}]

\* what the server may answer to the rule request
RuleResponses ==
    {Response(c, "application/json", b) :
        c \in {200, 400},
        b \in {JsonBody(JsonObject(None, None)), JsonBody(JsonArray(<<>>)), GarbageBody}}

\* one of the two actions starts with its parameters
RuleInit ==
    /\ CallsIdle
    /\ rpz_pc = "start"
    /\ rule_action \in {"create", "update"}
    /\ rule_type \in RuleTypes
    /\ \E oa \in RuleObjectArguments[rule_action] :
            object_type = oa[1] /\ reference_id = oa[2]
    /\ name \in RuleNames
    /\ substitute_name \in RuleSubstituteNames
    /\ rp_zone \in RuleZones
    /\ additional_parameters \in AdditionalParameters
    /\ formatted_name = [success |-> TRUE, name |-> None]
    /\ canonical_value = None
    /\ rule_data = None
    /\ TwinIdle
    /\ LookupIdle
    /\ ErrIdle

\* the request of the action with body d, or no request when d is empty
RuleRequest(m, d) ==
    /\ rule_data' = Some(d)
    /\ IF d = EmptyDict
       THEN /\ action_status' = "failure"
            /\ rpz_pc' = "failed"
            /\ UNCHANGED <<pc, mode, caller, method, params, headers_arg, headers,
                           resp, ret, sent, call_requests>>
       ELSE /\ mode' = "direct"
            /\ caller' = "rule"
            /\ method' = m
            /\ params' = None
            /\ headers_arg' = None
            /\ make_rest_call_begin("direct", m, None, None)
            /\ rpz_pc' = "called"
            /\ UNCHANGED action_status

\* execute up to the request: __validate_params, then __make_api_call
RuleExecute ==
    /\ rpz_pc = "start"
    /\ rule_action \in {"create", "update"}
    /\ LET status ==
            IF rule_action = "create"
            THEN create_validate_params(rule_type, object_type, substitute_name,
                                        additional_parameters)
            ELSE update_validate_params(rule_type, reference_id, substitute_name,
                                        additional_parameters)
           fn == format_rpz_cname_name(name, rp_zone)
           canonical == prepare_rpz_cname_canonical_value(
                            rule_type, name, substitute_name, object_type,
                            reference_id)
       IN  IF is_fail(status)
           THEN /\ action_status' = "failure"
                /\ rpz_pc' = "failed"
                /\ UNCHANGED <<pc, mode, caller, method, params, headers_arg, headers,
                               resp, ret, sent, call_requests, formatted_name,
                               canonical_value, rule_data>>
           ELSE /\ formatted_name' = fn
                /\ canonical_value' = canonical
                /\ IF rule_action = "create"
                   THEN RuleRequest(POST, create_data(fn.name, rp_zone, canonical,
                                                      additional_parameters))
                   ELSE RuleRequest(PUT, update_data(name, rp_zone, canonical,
                                                     additional_parameters))
    /\ UNCHANGED <<rpz_params, rule_action, additional_parameters>>
    /\ UNCHANGED <<twin_vars, lookup_vars, err_vars, limit_arg, page_size_arg,
                   paged_locals, served, transport_errors, action_data>>

\* the rule request gets its response and make_rest_call returns
RuleReceive ==
    /\ pc = "awaiting"
    /\ caller = "rule"
    /\ \E r \in RuleResponses :
        /\ resp' = r
        /\ served' = Append(served, r)
        /\ ret' = process_response(r)
    /\ pc' = "returned"
    /\ UNCHANGED <<rpz_vars, twin_vars, lookup_vars, err_vars, rule_vars, call_args,
                   headers, paged_locals, sent, call_requests, transport_errors,
                   action_vars>>

\* execute after the request: the error status, or __handle_response, which
\* calls response.get
RuleHandle ==
    /\ pc = "returned"
    /\ caller = "rule"
    /\ action_status' =
            IF is_fail(ret.ret_val) THEN "failure"
            ELSE IF ret.data[1].shape = "object" THEN "success"
            ELSE "raised"
    /\ action_data' =
            IF is_fail(ret.ret_val) THEN action_data ELSE Append(action_data, 0)
    /\ pc' = "finished"
    /\ UNCHANGED <<rpz_vars, twin_vars, lookup_vars, err_vars, rule_vars, call_args,
                   headers, paged_locals, resp, ret, sent, served, call_requests,
                   transport_errors>>

RuleNext == RuleExecute \/ TransportError \/ RuleReceive \/ RuleHandle

RuleSpec == RuleInit /\ [][RuleNext]_vars

----------------------------------------------------------------------------
(* Vocabulary of the properties.                                           *)

\* make_paginated_rest_call has returned to its caller
PagedReturned == mode = "paged" /\ pc \in {"returned", "finished"}
PagedSuccess == PagedReturned /\ ret.ret_val = APP_SUCCESS
PagedFailure == PagedReturned /\ ret.ret_val = APP_ERROR

\* the limit and page size the call runs with, from its arguments
CallLimit == IF limit_arg = None THEN 1000 ELSE limit_arg[1]
CallPageSize == IF page_size_arg = None THEN 1000 ELSE page_size_arg[1]

\* the last response received
LastServed == served[Len(served)]

\* the response is a JSON scalar: a page with no record list
ScalarPage(r) == r.body.text = "json" /\ r.body.json.shape = "scalar"
ArrayPage(r) == r.body.text = "json" /\ r.body.json.shape = "array"

\* records received before request k was issued
FetchedBefore(k) == ServedConcat(SubSeq(served, 1, k - 1))

\* requests issued and not yet answered (by a response or an exception)
Outstanding == Len(sent) - Len(served) - transport_errors

\* C1: a Success of make_paginated_rest_call carries at most `limit`
\* records, also when the server sent more than that.
C1_AtMostLimit ==
    PagedSuccess => ret.data # None /\ Len(ret.data[1]) <= CallLimit

C1_Witness ==
    /\ PagedSuccess
    /\ Len(ServedConcat(served)) > CallLimit
    /\ Len(ret.data[1]) = CallLimit

\* C2: a Success carries the first min(limit, N) entries of the
\* concatenation, in request order, of the pages received (every page being
\* an object or an array), N being the number of entries received.
C2_PrefixOfPages ==
    (PagedSuccess /\ \A i \in DOMAIN served : ~ScalarPage(served[i]))
        => ret.data[1] = SubSeq(ServedConcat(served), 1,
                                Min(CallLimit, Len(ServedConcat(served))))

C2_Witness ==
    /\ PagedSuccess
    /\ Len(served) >= 2
    /\ \A i \in DOMAIN served : ServedRecords(served[i]) # <<>>
    /\ Len(ServedConcat(served)) > CallLimit
    /\ ret.data[1] = SubSeq(ServedConcat(served), 1, CallLimit)

\* C3: request k carries _max_results = min(page_size, limit - records
\* received before request k); with an explicit limit (50, say) no larger
\* than the default page size the first request carries the limit, and with
\* neither limit nor page_size it carries 1000.
C3_MaxResults ==
    mode = "paged" =>
        /\ \A k \in DOMAIN sent :
            /\ "_max_results" \in DOMAIN sent[k].params
            /\ sent[k].params["_max_results"]
                 = Min(CallPageSize, CallLimit - Len(FetchedBefore(k)))
        /\ (sent # <<>> /\ page_size_arg = None /\ limit_arg = Some(50))
              => sent[1].params["_max_results"] = 50
        /\ (sent # <<>> /\ page_size_arg = None /\ limit_arg = None)
              => sent[1].params["_max_results"] = 1000

C3_Witness ==
    /\ mode = "paged"
    /\ Len(sent) >= 2
    /\ sent[2].params["_max_results"] < sent[1].params["_max_results"]
    /\ sent[2].params["_max_results"] < CallPageSize

\* C4: the first request carries no _page_id, request k+1 carries the
\* next_page_id of response k, and a request is issued only when every
\* earlier one was answered: at most one is outstanding.
C4_CursorThreading ==
    mode = "paged" =>
        /\ Outstanding \in {0, 1}
        /\ \A k \in DOMAIN sent :
            IF k = 1
            THEN "_page_id" \notin DOMAIN sent[k].params
            ELSE /\ Len(served) >= k - 1
                 /\ ServedCursor(served[k - 1]) # None
                 /\ "_page_id" \in DOMAIN sent[k].params
                 /\ sent[k].params["_page_id"] = ServedCursor(served[k - 1])[1]

C4_Witness ==
    /\ mode = "paged"
    /\ params = Some(HostileParams)
    /\ Len(sent) = 3
    /\ Outstanding = 1
    /\ sent[2].params["_page_id"] = "c1"
    /\ sent[3].params["_page_id"] = "c2"

\* after the last response, a successfully fetched page, the paginator goes
\* on to a further request (more) or has returned Success (not more)
GoesOnIff(more) ==
    (mode = "paged" /\ served # <<>> /\ transport_errors = 0
       /\ Len(sent) = Len(served)
       /\ ~is_fail(process_response(LastServed).ret_val))
        => IF more THEN pc = "loop" ELSE PagedSuccess

\* C5 as stated: a further request follows a page iff the page carried a
\* non-null next_page_id and fewer than `limit` records are accumulated.
C5_Original ==
    GoesOnIff(ServedCursor(LastServed) # None
              /\ Len(ServedConcat(served)) < CallLimit)

\* C5: a further request follows a successfully fetched page iff the page
\* carried a non-empty next_page_id (neither null nor "") and fewer than
\* `limit` records are accumulated; otherwise Success is returned, also at
\* exactly `limit`; a request at "loop" is always issued.
C5_GoesOnIffTruthyCursor ==
    /\ GoesOnIff(ServedCursor(LastServed) # None
                 /\ ServedCursor(LastServed) # Some("")
                 /\ Len(ServedConcat(served)) < CallLimit)
    /\ (mode = "paged" /\ pc = "loop" /\ served # <<>>) => ENABLED FetchPage
    /\ (mode = "paged" /\ Len(sent) > Len(served) /\ served # <<>>)
          => /\ Truthy(ServedCursor(LastServed))
             /\ Len(ServedConcat(served)) < CallLimit

\* three pages with cursors on the first two, fewer than limit records:
\* three requests, Success with every record
C5_Witness ==
    /\ PagedSuccess
    /\ Len(served) = 3 /\ Len(sent) = 3
    /\ ServedCursor(served[1]) = Some("c1")
    /\ ServedCursor(served[2]) = Some("c2")
    /\ ServedCursor(served[3]) = None
    /\ Len(ServedConcat(served)) >= 3
    /\ Len(ServedConcat(served)) < CallLimit
    /\ ret.data[1] = ServedConcat(served)

\* the page call that came last returned Failure: its request raised, it
\* was refused before any request, or its response is one make_rest_call
\* fails on
LastPageFailed ==
    /\ mode = "paged"
    /\ \/ transport_errors > 0
       \/ pc \in {"returned", "finished"} /\ sent = <<>>
       \/ /\ served # <<>>
          /\ Len(sent) = Len(served)
          /\ is_fail(process_response(LastServed).ret_val)

\* C6: when the request for a page returns Failure, make_paginated_rest_call
\* has returned that Failure (its message) with no record list, no request
\* follows the failed one, and the action adds no record to its result.
C6_FailureDropsPages ==
    /\ LastPageFailed =>
        /\ PagedFailure
        /\ ret.data = None
        /\ Outstanding = 0
        /\ transport_errors > 0 => ret.message.kind = "connect_error"
        /\ sent = <<>> => ret.message.kind = "unsupported_method"
        /\ (transport_errors = 0 /\ sent # <<>>)
              => ret.message = process_response(LastServed).message
        /\ action_data = <<>>
        /\ pc = "finished" => action_status = "failure"
    /\ (mode = "paged" /\ served # <<>> /\ Len(sent) > Len(served))
          => \A i \in DOMAIN served : ~is_fail(process_response(served[i]).ret_val)

\* the second page fails after a first page with records
C6_Witness ==
    /\ LastPageFailed
    /\ pc = "finished"
    /\ Len(served) = 2
    /\ ServedRecords(served[1]) # <<>>
    /\ all_results # <<>>
    /\ ret.data = None
    /\ action_data = <<>>

\* C7: a successful response that is a bare array has all its elements
\* appended, and the call returns Success with no further request, also
\* below `limit` and after a page that supplied a cursor.
C7_BareArrayEnds ==
    (mode = "paged" /\ served # <<>> /\ transport_errors = 0
       /\ ArrayPage(LastServed)
       /\ ~is_fail(process_response(LastServed).ret_val))
        => /\ PagedSuccess
           /\ Len(sent) = Len(served)
           /\ all_results = ServedConcat(served)
           /\ all_results = FetchedBefore(Len(served)) \o LastServed.body.json.items
           /\ ret.data[1] = SubSeq(all_results, 1, Min(CallLimit, Len(all_results)))

C7_Witness ==
    /\ PagedSuccess
    /\ Len(served) = 2
    /\ ServedCursor(served[1]) = Some("c1")
    /\ ArrayPage(served[2])
    /\ ServedRecords(served[2]) # <<>>
    /\ Len(all_results) < CallLimit
    /\ Len(sent) = 2

\* C8: every request of make_paginated_rest_call carries _paging=1 and
\* _return_as_object=1, whatever the caller's params held for these keys.
C8_PagingFlags ==
    mode = "paged" =>
        \A k \in DOMAIN sent :
            /\ "_paging" \in DOMAIN sent[k].params
            /\ sent[k].params["_paging"] = 1
            /\ "_return_as_object" \in DOMAIN sent[k].params
            /\ sent[k].params["_return_as_object"] = 1

C8_Witness ==
    /\ mode = "paged"
    /\ params = Some(HostileParams)
    /\ params[1]["_paging"] = 0
    /\ Len(sent) = 3
    /\ sent[3].params["_paging"] = 1
    /\ sent[3].params["_return_as_object"] = 1

\* the method is, letter case aside, one of get/post/put/patch/delete
AllowedIgnoringCase(m) ==
    \E a \in {GET, POST, PUT, PATCH, DELETE} : Lower(m) = Lower(a)

\* C9: a make_rest_call issues at most one request: none when the method
\* is, case-insensitively, not one of get/post/put/patch/delete (Failure
\* naming the method), one otherwise; an exception of that request gives
\* Failure with no second request.
C9_AtMostOneRequest ==
    /\ call_requests \in {0, 1}
    /\ (mode = "direct" /\ pc = "returned") =>
        /\ Len(sent) = call_requests
        /\ IF AllowedIgnoringCase(method)
           THEN /\ call_requests = 1
                /\ Len(served) + transport_errors = 1
           ELSE /\ call_requests = 0
                /\ served = <<>> /\ transport_errors = 0
                /\ ret.ret_val = APP_ERROR
                /\ ret.message.kind = "unsupported_method"
                /\ ret.message.method = Lower(method)
        /\ transport_errors > 0 =>
            /\ transport_errors = 1
            /\ Len(sent) = 1
            /\ ret.ret_val = APP_ERROR
            /\ ret.message.kind = "connect_error"
    /\ (mode = "paged" /\ pc \in {"returned", "finished"}) =>
        /\ Len(sent) = Len(served) + transport_errors
        /\ transport_errors <= 1

C9_Witness ==
    /\ mode = "direct" /\ pc = "returned"
    /\ method = <<"T", "R", "A", "C", "E">>
    /\ sent = <<>>
    /\ ret.message.method = <<"t", "r", "a", "c", "e">>

\* a second case of C9: an upper-case method is accepted, its one request
\* raises, and the call returns Failure
C9_WitnessTransport ==
    /\ mode = "direct" /\ pc = "returned"
    /\ method = <<"G", "E", "T">>
    /\ transport_errors = 1
    /\ Len(sent) = 1

\* C10: for a JSON content type the executor returns Success exactly when
\* the status is in [200,300) and the body is empty or blank (Success with
\* the empty object) or parses (Success with the parsed value); every other
\* case is a Failure.
C10_JsonOutcome ==
    (mode = "direct" /\ pc = "returned" /\ served # <<>>
       /\ resp.content_type = "application/json")
        => LET in2xx == resp.status_code >= 200 /\ resp.status_code < 300
               blank == resp.body.text \in {"empty", "blank"}
               parses == resp.body.text = "json"
           IN  /\ ret.ret_val = APP_SUCCESS <=> (in2xx /\ (blank \/ parses))
               /\ ret.ret_val = APP_ERROR <=> ~(in2xx /\ (blank \/ parses))
               /\ (in2xx /\ blank) => ret.data = Some(EmptyObject)
               /\ (in2xx /\ parses) => ret.data = Some(resp.body.json)

\* body {} with status 200 and content type application/json
C10_Witness ==
    /\ mode = "direct" /\ pc = "returned"
    /\ resp = Response(200, "application/json", JsonBody(JsonObject(None, None)))
    /\ ret.ret_val = APP_SUCCESS
    /\ ret.data = Some(JsonObject(None, None))

\* a direct make_rest_call has returned after a response arrived
DirectAnswered == mode = "direct" /\ pc = "returned" /\ served # <<>>

\* the content type of the response names neither JSON nor HTML
OtherContentType == resp.content_type \in {"text/plain", "application/xml", ""}

\* C11: an empty body under a content type that is neither JSON nor HTML
\* gives Success with the empty object for every status code in [200,400),
\* 399 included, and Failure for every other status code.
C11_EmptyBodyBelow400 ==
    (DirectAnswered /\ OtherContentType /\ resp.body.text = "empty")
        => IF 200 <= resp.status_code /\ resp.status_code < 400
           THEN ret.ret_val = APP_SUCCESS /\ ret.data = Some(EmptyObject)
           ELSE ret.ret_val = APP_ERROR

\* C12: a response with an HTML content type is a Failure with no body,
\* for every status code and every body, the empty one included.
C12_HtmlAlwaysFails ==
    (DirectAnswered /\ resp.content_type = "text/html")
        => /\ ret.ret_val = APP_ERROR
           /\ ret.data = None
           /\ ret.message.kind = "html"
           /\ ret.message.code = resp.status_code

\* an empty HTML body with status 200
C12_Witness ==
    /\ DirectAnswered
    /\ resp.content_type = "text/html"
    /\ resp.status_code = 200
    /\ resp.body.text = "empty"
    /\ ret.ret_val = APP_ERROR

\* text/plain with a body that starts with "{" once stripped
PlainLooksLikeJson ==
    /\ resp.content_type = "text/plain"
    /\ \/ resp.body.text = "brace_garbage"
       \/ resp.body.text = "json" /\ resp.body.json.shape = "object"

\* C13: a non-empty body under a content type that is neither JSON nor HTML
\* (text/plain with a body starting with "{" aside) is a Failure with no
\* body for every status code, 2xx included.
C13_UnexpectedBodyFails ==
    (DirectAnswered /\ OtherContentType /\ resp.body.text # "empty"
       /\ ~PlainLooksLikeJson)
        => /\ ret.ret_val = APP_ERROR
           /\ ret.data = None
           /\ ret.message.kind = "cant_process"

\* a JSON array sent as text/plain with status 200
C13_Witness ==
    /\ DirectAnswered
    /\ resp.content_type = "text/plain"
    /\ resp.status_code = 200
    /\ resp.body.text = "json" /\ resp.body.json.shape = "array"
    /\ ret.ret_val = APP_ERROR

\* a call has returned to its caller
Returned == mode # "none" /\ pc \in {"returned", "finished"}

\* the response was handled as JSON and its status is outside [200,300)
JsonErrorResponse ==
    /\ served # <<>> /\ transport_errors = 0
    /\ resp.content_type = "application/json" \/ PlainLooksLikeJson
    /\ ~(200 <= resp.status_code /\ resp.status_code < 300)
    /\ resp.body.text # "brace_garbage" /\ resp.body.text # "garbage"

ParamsAsPassed ==
    params \in ParamChoices \cup {Some(DhcpQueryParams(l)) : l \in Limits}

\* C19: after make_rest_call or make_paginated_rest_call returned, the
\* caller's params mapping and the caller's headers mapping hold exactly the
\* keys and values they held when the call was made.
C19_DescriptorUnchanged ==
    Returned => ParamsAsPassed /\ headers = headers_arg

\* the rule action has derived its canonical value / qualified its name
Prepared == rpz_pc = "prepared"
Named == rpz_pc \in {"named", "prepared"}

\* the kind of object the rule is about, as the caller states it: by its
\* object_type, or by its reference id when no object_type is passed
IsDomainObject ==
    \/ object_type = Some("Domain Name") /\ reference_id = None
    \/ object_type = None /\ reference_id = Some(DomainReference)
IsAddressObject ==
    \/ object_type = Some("IP address") /\ reference_id = None
    \/ object_type = None /\ reference_id = Some(IpReference)
IsClientAddressObject ==
    \/ object_type = Some("Client IP Address") /\ reference_id = None
    \/ object_type = None /\ reference_id = Some(ClientIpReference)

\* the name starts with the wildcard marker
WildcardName == name # None /\ Len(name[1]) >= 1 /\ name[1][1] = "*"

\* C15: for rule kind block-no-such-record the canonical value is the empty
\* string and for block-no-data it is "*", whatever the object kind, name,
\* substitute target and reference id.
C15_BlockValues ==
    Prepared =>
        /\ rule_type = "Block (No such domain)" => canonical_value = Some(<<>>)
        /\ rule_type = "Block (No data)" => canonical_value = Some(<<"*">>)

C15_Witness ==
    /\ Prepared
    /\ rule_type = "Block (No such domain)"
    /\ IsClientAddressObject
    /\ WildcardName
    /\ substitute_name # None
    /\ canonical_value = Some(<<>>)

\* C16: for rule kind pass-through the canonical value is, for a domain
\* object, "infoblox-passthru" when the name starts with "*" and the name
\* itself otherwise; for an address object the name itself, also when it
\* starts with "*"; for a client-address object "rpz-passthru".
C16_PassthruValues ==
    (Prepared /\ rule_type = "Passthru") =>
        /\ (IsDomainObject /\ WildcardName)
               => canonical_value = Some(<<"infoblox-passthru">>)
        /\ (IsDomainObject /\ ~WildcardName) => canonical_value = name
        /\ IsAddressObject => canonical_value = name
        /\ IsClientAddressObject => canonical_value = Some(<<"rpz-passthru">>)

C16_Witness ==
    /\ Prepared
    /\ rule_type = "Passthru"
    /\ IsDomainObject
    /\ name = Some(<<"*", ".", "a">>)
    /\ canonical_value = Some(<<"infoblox-passthru">>)

\* C17: for rule kind substitute the canonical value is the substitute
\* target the caller supplied when the object is a domain; for an address
\* or client-address object no value is returned, and in particular none
\* of the block or pass-through literals.
C17_SubstituteValues ==
    (Prepared /\ rule_type = "Substitute (domain name)") =>
        /\ IsDomainObject => canonical_value = substitute_name
        /\ (IsAddressObject \/ IsClientAddressObject) =>
               /\ canonical_value = None
               /\ canonical_value \notin
                      {Some(<<>>), Some(<<"*">>), Some(<<"rpz-passthru">>),
                       Some(<<"infoblox-passthru">>)}

C17_Witness ==
    /\ Prepared
    /\ rule_type = "Substitute (domain name)"
    /\ IsAddressObject
    /\ substitute_name # None
    /\ canonical_value = None

\* the strings the claim on name qualification speaks about
NameGiven == name # None /\ name[1] # <<>>
ZoneGiven == rp_zone # None /\ rp_zone[1] # <<>>
DotZone == <<".">> \o rp_zone[1]
HasDotZoneSuffix(s) ==
    /\ Len(s) >= Len(DotZone)
    /\ \A i \in 1..Len(DotZone) : s[Len(s) - Len(DotZone) + i] = DotZone[i]

\* C18: for a non-empty name and a non-empty zone format_rpz_cname_name
\* returns the name unchanged when it ends with "." + zone and otherwise
\* name + "." + zone; the result ends with "." + zone and formatting it
\* again changes nothing. When the name or the zone is empty it reports
\* success with no formatted value.
C18_NameQualification ==
    Named =>
        /\ formatted_name.success
        /\ (NameGiven /\ ZoneGiven) =>
               /\ formatted_name.name # None
               /\ HasDotZoneSuffix(name[1]) => formatted_name.name = name
               /\ ~HasDotZoneSuffix(name[1])
                      => formatted_name.name[1] = name[1] \o DotZone
               /\ HasDotZoneSuffix(formatted_name.name[1])
               /\ format_rpz_cname_name(formatted_name.name, rp_zone)
                      = formatted_name
        /\ ~(NameGiven /\ ZoneGiven) => formatted_name.name = None

C18_Witness ==
    /\ Named
    /\ name = Some(<<"a">>)
    /\ rp_zone = Some(<<"a">>)
    /\ formatted_name = [success |-> TRUE, name |-> Some(<<"a", ".", "a">>)]

C18_WitnessUnchanged ==
    /\ Named
    /\ name = Some(<<"a", ".", "a">>)
    /\ rp_zone = Some(<<"a">>)
    /\ formatted_name.name = name

\* the cursors invocation i received before its request k was issued
CursorsReceived(i, k) ==
    {ServedCursor(t_served[i][j]) : j \in 1..(k - 1)} \ {None}

\* the records of the responses invocation i received
RecordsReceived(i) ==
    {ServedConcat(t_served[i])[n] : n \in DOMAIN ServedConcat(t_served[i])}

TwinSuccess(i) == t_pc[i] = "returned" /\ t_ret[i].ret_val = APP_SUCCESS

\* C20: of two invocations of make_paginated_rest_call that run one after
\* the other or interleaved request by request, each sends its first request
\* without _page_id, each later request with a cursor that same invocation
\* received, and each returns only records of its own responses.
C20_NoSharedState ==
    \A i \in Invocations :
        /\ Len(t_sent[i]) >= 1 => "_page_id" \notin DOMAIN t_sent[i][1]
        /\ \A k \in 2..Len(t_sent[i]) :
               /\ "_page_id" \in DOMAIN t_sent[i][k]
               /\ Some(t_sent[i][k]["_page_id"]) \in CursorsReceived(i, k)
        /\ TwinSuccess(i) =>
               \A n \in DOMAIN t_ret[i].data[1] :
                   t_ret[i].data[1][n] \in RecordsReceived(i)

\* both invocations have their second request on the wire at the same time
C20_Witness ==
    /\ \A i \in Invocations :
           /\ t_pc[i] = "awaiting"
           /\ Len(t_sent[i]) = 2
           /\ Some(t_sent[i][2]["_page_id"]) = ServedCursor(t_served[i][1])
    /\ ServedCursor(t_served[1][1]) # ServedCursor(t_served[2][1])

\* invocation 2 ran from start to end while invocation 1 was waiting, and
\* both returned pages of their own
C20_WitnessReturned ==
    /\ \A i \in Invocations : TwinSuccess(i) /\ Len(t_ret[i].data[1]) >= 2
    /\ Len(t_sent[1]) = 2 /\ Len(t_sent[2]) = 2

\* the last page was a successful JSON response that is neither an object
\* nor an array
MalformedLastPage ==
    /\ served # <<>>
    /\ ScalarPage(LastServed)
    /\ InSuccessRange(LastServed.status_code)
    /\ HasJson(LastServed.content_type)

\* C21: when a page's successful JSON response is neither an object nor an
\* array, make_paginated_rest_call returns a Failure with a message, not a
\* Success whose sequence holds an entry that is not a record.
C21_MalformedShapeFails ==
    (PagedReturned /\ MalformedLastPage)
        => /\ PagedFailure
           /\ ret.message # NoMsg

\* C22: make_paginated_rest_call, once entered with a limit >= 1,
\* eventually returns, whatever the server answers, provided every request
\* gets a response; also when the server keeps sending empty result lists
\* with a next_page_id.
C22_EventuallyReturns == (mode = "paged") ~> PagedReturned

\* the supplied limit is zero, negative or not an integer
InvalidLimit ==
    /\ limit_param # None
    /\ \/ limit_param[1].kind # "number"
       \/ limit_param[1].tenths <= 0
       \/ \A n \in 1..1000 : limit_param[1].tenths # 10 * n

\* the lookup action has run its validation
LookupValidated == lookup_pc \in {"failed", "called"}

\* C23: in every lookup action that takes a limit, a supplied limit that is
\* zero, negative or not an integer ends the action in failure before any
\* HTTP request is issued; make_paginated_rest_call is only entered with a
\* limit >= 1.
C23_InvalidLimitFailsEarly ==
    /\ InvalidLimit => sent = <<>> /\ mode = "none"
    /\ (InvalidLimit /\ LookupValidated)
           => lookup_pc = "failed" /\ action_status = "failure"
    /\ mode = "paged" => limit >= 1

C23_Witness ==
    /\ lookup_action = "zone"
    /\ limit_param = Some(Number(0))
    /\ lookup_pc = "failed"
    /\ action_status = "failure"
    /\ sent = <<>>

\* C24: when the DHCP lease lookup or the IP lookup action runs without a
\* limit parameter, no request asks for more than 100 records
\* (DEFAULT_LIMIT) and at most 100 records are added to the action result.
C24_DefaultLimitApplies ==
    (lookup_action \in {"dhcp", "ip"} /\ limit_param = None)
        => /\ \A k \in DOMAIN sent : sent[k].params["_max_results"] <= 100
           /\ Len(action_data) <= 100

\* _process_json_response has run on a response with a status outside
\* [200,300)
JsonErrorDone ==
    err_pc = "done" /\ ~(200 <= err_status /\ err_status < 300)

\* the key is present with a non-empty value
Present(v) == v # None /\ v[1] # ""

\* the detail the priority order picks from an object body
PickedDetail ==
    IF Present(err_body.Error) THEN <<"Error", err_body.Error[1]>>
    ELSE IF Present(err_body.error) THEN <<"Error", err_body.error[1]>>
    ELSE IF Present(err_body.text) THEN <<"Details", err_body.text[1]>>
    ELSE IF Present(err_body.msg) THEN <<"Message", err_body.msg[1]>>
    ELSE <<>>

\* C25 as stated: every JSON response with a status outside [200,300) is a
\* Failure whose message holds the status code.
C25_Original ==
    JsonErrorDone
        => /\ err_ret.ret_val = APP_ERROR
           /\ err_ret.message.kind = "status_code"
           /\ err_ret.message.code = err_status

\* C25 (amended): for a JSON response with a status outside [200,300) whose
\* body is empty or parses, the Failure message holds the status code and at
\* most one detail: from an object body the value of Error, else error, else
\* text, else msg, the first that is non-empty; no detail when none is, or
\* when the body is not an object. A body that does not parse gives the
\* parse-error message, which holds no status code.
C25_MessageDetail ==
    JsonErrorDone
        => /\ err_ret.ret_val = APP_ERROR
           /\ IF err_body.shape = "garbage"
              THEN err_ret.message = ErrorMsg("json_parse", 0, <<>>)
              ELSE /\ err_ret.message.kind = "status_code"
                   /\ err_ret.message.code = err_status
                   /\ err_ret.message.detail =
                          IF err_body.shape = "object" THEN PickedDetail ELSE <<>>

\* Error is empty, error and text are both there: error is picked
C25_Witness ==
    /\ JsonErrorDone
    /\ err_body = ErrorObject(Some(""), Some("e"), Some("t"), None)
    /\ err_ret.message = ErrorMsg("status_code", err_status, <<"Error", "e">>)

\* the same response, had it come with Content-Type application/json
AsJson(r) == [r EXCEPT !.content_type = "application/json"]

\* a text/plain response whose body starts with "{"
PlainBrace ==
    /\ resp.content_type = "text/plain"
    /\ resp.body.text \in {"brace_garbage", "json"}
    /\ resp.body.text = "json" => resp.body.json.shape = "object"

SubstituteUnusable ==
    /\ rule_action \in {"create", "update"}
    /\ rule_type = RULE_TYPE_SUBSTITUTE
    /\ \/ ~NonEmpty(substitute_name)
       \/ rule_action = "create" /\ object_type # Some(OBJECT_TYPE_DOMAIN)
       \/ /\ rule_action = "update"
          /\ NonEmpty(reference_id)
          /\ \/ Contains(reference_id[1], ":ipaddress/")
             \/ Contains(reference_id[1], ":clientipaddress/")

\* the action issued its request
RuleRequestSent == rule_action \in {"create", "update"} /\ sent # <<>>

\* the body of the request carries a canonical that is not null
CanonicalGiven ==
    /\ rule_data # None
    /\ "canonical" \in DOMAIN rule_data[1]
    /\ rule_data[1]["canonical"] # None

\* the rejection: a Substitute rule without a substitute name or for an
\* object that is not a domain ends in failure without any HTTP request
C27_UnusableSubstituteRejected ==
    SubstituteUnusable =>
        /\ sent = <<>>
        /\ rpz_pc # "start" => action_status = "failure" /\ rpz_pc = "failed"

\* C27: the create and update RPZ CNAME rule actions reject a Substitute rule
\* whose substitute name is missing or whose object is not a domain without
\* issuing a request, and no request for a Substitute rule is ever sent with
\* an absent or null canonical
C27_SubstituteAlwaysHasCanonical ==
    /\ C27_UnusableSubstituteRejected
    /\ RuleRequestSent /\ rule_type = RULE_TYPE_SUBSTITUTE => CanonicalGiven

\* C28: for limit >= 1 and page_size >= 1 every request of
\* make_paginated_rest_call carries a _max_results between 1 and
\* min(page_size, limit), whatever _max_results the caller's params held, and
\* with the default page size no request asks for more than 1000 records.
C28_MaxResultsWithinBounds ==
    (mode = "paged" /\ CallLimit >= 1 /\ CallPageSize >= 1) =>
        \A k \in DOMAIN sent :
            /\ "_max_results" \in DOMAIN sent[k].params
            /\ sent[k].params["_max_results"] >= 1
            /\ sent[k].params["_max_results"] <= Min(CallPageSize, CallLimit)
            /\ page_size_arg = None => sent[k].params["_max_results"] <= 1000

C28_Witness ==
    /\ mode = "paged"
    /\ params = Some(HostileParams)
    /\ params[1]["_max_results"] > Min(CallPageSize, CallLimit)
    /\ CallLimit >= 1
    /\ CallPageSize >= 1
    /\ Len(sent) = 3
    /\ sent[3].params["_max_results"] = 1

\* every page the server returned holds at most the _max_results of its
\* request
PagesWithinRequest ==
    \A k \in DOMAIN served :
        Len(ServedRecords(served[k])) <= sent[k].params["_max_results"]

\* every page that carries a cursor holds at least one record
CursorPagesNonEmpty ==
    \A k \in DOMAIN served :
        Truthy(ServedCursor(served[k])) => ServedRecords(served[k]) # <<>>

\* C29: when no page holds more than the _max_results requested for it,
\* all_results never holds more than `limit` records and the final trim
\* removes nothing; when, in addition, every page with a cursor holds a
\* record, at most `limit` requests are issued.
C29_NoOvershoot ==
    (mode = "paged" /\ PagesWithinRequest) =>
        /\ Len(all_results) <= CallLimit
        /\ PagedSuccess => ret.data[1] = all_results
        /\ CursorPagesNonEmpty => Len(sent) <= CallLimit

C29_Witness ==
    /\ PagedSuccess
    /\ PagesWithinRequest
    /\ CursorPagesNonEmpty
    /\ CallLimit = 3
    /\ Len(sent) = 3
    /\ Len(served) = 3
    /\ \A k \in 1..2 : Truthy(ServedCursor(served[k]))
    /\ Len(all_results) = 3
    /\ ret.data[1] = all_results

\* the object kind a reference id stands for
ReferenceKind(ref) ==
    IF Contains(ref, ":ipaddress/") THEN OBJECT_TYPE_IP
    ELSE IF Contains(ref, ":clientipaddress/") THEN OBJECT_TYPE_CLIENT_IP
    ELSE OBJECT_TYPE_DOMAIN

\* the canonical value of the rule for an explicit object kind and no
\* reference id
CanonicalForKind(kind) ==
    prepare_rpz_cname_canonical_value(rule_type, name, substitute_name, Some(kind), None)

\* C30: the canonical value derived from a reference id alone is the one
\* derived from the object kind the reference stands for, for every rule
\* type, name and substitute name; an object kind that is given decides,
\* whatever the reference id says.
C30_ReferenceAsExplicitKind ==
    rpz_pc = "prepared" =>
        /\ (object_type = None /\ NonEmpty(reference_id))
              => canonical_value = CanonicalForKind(ReferenceKind(reference_id[1]))
        /\ object_type # None => canonical_value = CanonicalForKind(object_type[1])

C30_Witness ==
    /\ rpz_pc = "prepared"
    /\ object_type = None
    /\ reference_id = Some(ClientIpReference)
    /\ rule_type = RULE_TYPE_PASSTHRU
    /\ canonical_value = Some(CANONICAL_PASSTHRU)
    /\ canonical_value # CanonicalForKind(OBJECT_TYPE_DOMAIN)

C30_WitnessPrecedence ==
    /\ rpz_pc = "prepared"
    /\ object_type = Some(OBJECT_TYPE_DOMAIN)
    /\ reference_id = Some(IpReference)
    /\ rule_type = RULE_TYPE_SUBSTITUTE
    /\ canonical_value = substitute_name
    /\ canonical_value # CanonicalForKind(OBJECT_TYPE_IP)

====
